---------------------------- MODULE Spec2Model ----------------------------
(***************************************************************************)
(* Model of the myblog backend skeleton:                                   *)
(*   - app/core/config.py : parse_cors, class Settings and its two         *)
(*     model validators, the module-level `settings = Settings()`.         *)
(*   - app/main.py        : the application module (app, GET /, the import *)
(*     of settings, the print of PROJECT_NAME).                            *)
(*   - migrations/env.py  : the migration script (offline / online mode).  *)
(*                                                                         *)
(* Three specifications share the module: Spec (loading app.main and       *)
(* serving GET /), SpecMigrate (one run of env.py) and SpecCors            *)
(* (parse_cors applied to a value).                                        *)
(***************************************************************************)
EXTENDS Naturals, Sequences, FiniteSets

VARIABLES
    \* ---- app.main / app.core.config ----
    environ,        \* the process environment / .env file, as read by Settings()
    a_pc,           \* position in the loading of app.main
    routes,         \* routes registered on the FastAPI app
    self,           \* the Settings instance under construction (NoObject before)
    warned,         \* warnings issued by warnings.warn, in order
    error,          \* the exception that ended the import, or NoError
    settings,       \* the module global app.core.config.settings (NoObject if unbound)
    built,          \* number of Settings instances bound to the global
    printed,        \* what main.py:14 printed
    served,         \* number of answers given by GET /
    \* ---- migrations/env.py ----
    m_environ,      \* os.environ as read by get_url
    m_cfgfile,      \* config.config_file_name is not None
    m_offline,      \* context.is_offline_mode()
    m_dbUp,         \* whether the database accepts a connection
    m_pc,           \* position in env.py
    m_logging,      \* fileConfig was applied
    m_url,          \* main option sqlalchemy.url
    m_ctx,          \* what context.configure was last given
    m_engine,       \* "none" | "created" | "disposed"
    m_conn,         \* "none" | "open" | "closed"
    m_log,          \* one entry per call of a mode function or of context.run_migrations
    \* ---- parse_cors ----
    c_pc,           \* "call" | "returned" | "raised"
    c_input,        \* the value given to parse_cors
    c_result        \* what parse_cors returned

appVars  == <<environ, a_pc, routes, self, warned, error, settings, built, printed, served>>
migVars  == <<m_environ, m_cfgfile, m_offline, m_dbUp, m_pc, m_logging, m_url, m_ctx,
              m_engine, m_conn, m_log>>
corsVars == <<c_pc, c_input, c_result>>
vars     == <<appVars, migVars, corsVars>>

\* Bound on the number of requests GET / answers in a run.
MaxRequests == 2

-----------------------------------------------------------------------------
(***************************************************************************)
(* app/core/config.py : class Settings                                     *)
(***************************************************************************)

\* A variable absent from the environment and from .env.
Unset == "<unset>"
\* Python's None.
None == "<None>"
\* No Settings object.
NoObject == [exists |-> FALSE]
NoError == "<no error>"

\* The value of secrets.token_urlsafe(32): 43 url-safe characters, drawn at
\* class-definition time.  It is longer than every unsafe default.
TokenUrlsafe == "<token_urlsafe(32)>"

\* config.py:172 holds a Cyrillic placeholder; it is transliterated here.
UnsafeSecretKeyPlaceholder == "vash_unikalnyj_sekretnyj_klyuch"

\* config.py:171-175, the dictionary unsafe_defaults.
unsafe_defaults ==
    [ SECRET_KEY               |-> {UnsafeSecretKeyPlaceholder, "changeme", "secret"},
      POSTGRES_PASSWORD        |-> {"postgres", "password", "123456"},
      FIRST_SUPERUSER_PASSWORD |-> {"admin", "admin123", "qwerty", "123456"} ]

\* The fields of Settings that have no default (config.py:100-106,155-156).
RequiredFields ==
    {"PROJECT_NAME", "POSTGRES_SERVER", "POSTGRES_USER", "POSTGRES_PASSWORD",
     "FIRST_SUPERUSER", "FIRST_SUPERUSER_PASSWORD"}

\* The values ENVIRONMENT may take (config.py:76).
EnvironmentLiteral == {"local", "staging", "production"}

\* The environments Settings() is constructed in.
Environs ==
    [ ENVIRONMENT              : {Unset, "local", "staging", "production", "dev"},
      SECRET_KEY               : {Unset, "s3cure"} \cup unsafe_defaults.SECRET_KEY,
      PROJECT_NAME             : {Unset, "", "myblog"},
      POSTGRES_SERVER          : {Unset, "db"},
      POSTGRES_USER            : {Unset, "blog"},
      POSTGRES_PASSWORD        : {Unset, "s3cure", "admin"}
                                     \cup unsafe_defaults.POSTGRES_PASSWORD,
      FIRST_SUPERUSER          : {Unset, "admin@example.com"},
      FIRST_SUPERUSER_PASSWORD : {Unset, "s3cure"}
                                     \cup unsafe_defaults.FIRST_SUPERUSER_PASSWORD,
      EMAILS_FROM_NAME         : {Unset, "", "Blog Mailer"} ]

\* The variables of the environment the model follows.
EnvNames ==
    {"ENVIRONMENT", "SECRET_KEY", "PROJECT_NAME", "POSTGRES_SERVER", "POSTGRES_USER",
     "POSTGRES_PASSWORD", "FIRST_SUPERUSER", "FIRST_SUPERUSER_PASSWORD",
     "EMAILS_FROM_NAME"}

\* model_config, env_ignore_empty=True (config.py:59-63): an empty value is
\* treated as if the variable were not set.
EnvValue(env, name) ==
    IF env[name] = "" THEN Unset ELSE env[name]

\* The field defaults (config.py:68, 76, 128).
FieldDefault(name) ==
    CASE name = "SECRET_KEY"       -> TokenUrlsafe
      [] name = "ENVIRONMENT"      -> "local"
      [] name = "EMAILS_FROM_NAME" -> None
      [] OTHER                     -> Unset

\* The value a field gets from the sources: the environment, else its default.
FieldValue(env, name) ==
    IF EnvValue(env, name) = Unset THEN FieldDefault(name) ELSE EnvValue(env, name)

\* Field validation of BaseSettings.__init__: the fields in error.
FieldErrors(env) ==
    {n \in RequiredFields : FieldValue(env, n) = Unset}
      \cup (IF FieldValue(env, "ENVIRONMENT") \in EnvironmentLiteral
            THEN {} ELSE {"ENVIRONMENT"})

\* The instance as it stands after field validation.
Fields(env) ==
    [ exists                   |-> TRUE,
      ENVIRONMENT              |-> FieldValue(env, "ENVIRONMENT"),
      SECRET_KEY               |-> FieldValue(env, "SECRET_KEY"),
      PROJECT_NAME             |-> FieldValue(env, "PROJECT_NAME"),
      POSTGRES_SERVER          |-> FieldValue(env, "POSTGRES_SERVER"),
      POSTGRES_USER            |-> FieldValue(env, "POSTGRES_USER"),
      POSTGRES_PASSWORD        |-> FieldValue(env, "POSTGRES_PASSWORD"),
      FIRST_SUPERUSER          |-> FieldValue(env, "FIRST_SUPERUSER"),
      FIRST_SUPERUSER_PASSWORD |-> FieldValue(env, "FIRST_SUPERUSER_PASSWORD"),
      EMAILS_FROM_NAME         |-> FieldValue(env, "EMAILS_FROM_NAME") ]

\* Python truthiness of a str | None.
Truthy(v) == v \notin {None, ""}

\* A variant of the validator that overwrites the name whether or not one
\* was supplied.
SetDefaultEmailsFromAlways(obj) ==
    [obj EXCEPT !.EMAILS_FROM_NAME = obj.PROJECT_NAME]

\* config.py:130-138.  The instance after the validator.
_set_default_emails_from(obj) ==
    IF ~Truthy(obj.EMAILS_FROM_NAME)
    THEN [obj EXCEPT !.EMAILS_FROM_NAME = obj.PROJECT_NAME]
    ELSE obj

\* A variant of the check that warns in every environment.
CheckDefaultSecretWarnOnly(obj, var_name, value) ==
    IF var_name \in DOMAIN unsafe_defaults /\ value \in unsafe_defaults[var_name]
    THEN "warn"
    ELSE "pass"

\* A variant of the check that raises in every environment.
CheckDefaultSecretRaiseAlways(obj, var_name, value) ==
    IF var_name \in DOMAIN unsafe_defaults /\ value \in unsafe_defaults[var_name]
    THEN "raise"
    ELSE "pass"

\* config.py:165-185.  What one call does: "pass" (returns silently),
\* "warn" (warnings.warn, then returns) or "raise" (ValueError).
_check_default_secret(obj, var_name, value) ==
    IF var_name \in DOMAIN unsafe_defaults /\ value \in unsafe_defaults[var_name]
    THEN IF obj.ENVIRONMENT = "local" THEN "warn" ELSE "raise"
    ELSE "pass"

\* config.py:193-197, the three calls in their order.
SecretChecks == <<"SECRET_KEY", "POSTGRES_PASSWORD", "FIRST_SUPERUSER_PASSWORD">>

\* config.py:187-198.  The calls are made in order; a raise ends the validator.
\* The result: whether it raised, for which variable, and the warnings issued.
RECURSIVE EnforceFrom(_, _, _)
EnforceFrom(obj, i, warnings) ==
    IF i > Len(SecretChecks)
    THEN [raised |-> FALSE, var |-> None, warnings |-> warnings]
    ELSE LET name    == SecretChecks[i]
             outcome == _check_default_secret(obj, name, obj[name])
         IN  IF outcome = "raise"
             THEN [raised |-> TRUE, var |-> name, warnings |-> warnings]
             ELSE EnforceFrom(obj, i + 1,
                              IF outcome = "warn" THEN Append(warnings, name)
                                                  ELSE warnings)

_enforce_non_default_secrets(obj) == EnforceFrom(obj, 1, <<>>)

-----------------------------------------------------------------------------
(***************************************************************************)
(* app/main.py and the execution of app/core/config.py on import           *)
(***************************************************************************)

\* main.py:4
CreateApp ==
    /\ a_pc = "main_4"
    /\ a_pc' = "main_7"
    /\ UNCHANGED <<environ, routes, self, warned, error, settings, built, printed, served>>
    /\ UNCHANGED <<migVars, corsVars>>

\* main.py:7-9, the decorator registers the route.
RegisterRoot ==
    /\ a_pc = "main_7"
    /\ routes' = routes \cup {"GET /"}
    /\ a_pc' = "main_12"
    /\ UNCHANGED <<environ, self, warned, error, settings, built, printed, served>>
    /\ UNCHANGED <<migVars, corsVars>>

\* main.py:12 starts the execution of config.py, which reaches config.py:202
\* and calls Settings().
ImportConfig ==
    /\ a_pc = "main_12"
    /\ a_pc' = "config_fields"
    /\ UNCHANGED <<environ, routes, self, warned, error, settings, built, printed, served>>
    /\ UNCHANGED <<migVars, corsVars>>

\* Field validation as it would be if the required fields had defaults:
\* nothing is reported missing.
ValidateFieldsLenient ==
    /\ a_pc = "config_fields"
    /\ self' = Fields(environ)
    /\ a_pc' = "config_emails"
    /\ UNCHANGED <<environ, routes, warned, error, settings, built, printed, served>>
    /\ UNCHANGED <<migVars, corsVars>>

\* BaseSettings.__init__: the sources are read and the fields validated.
\* A missing required field or a bad literal raises ValidationError, which
\* leaves Settings(), config.py and main.py:12.
ValidateFields ==
    /\ a_pc = "config_fields"
    /\ IF FieldErrors(environ) # {}
       THEN /\ error' = "ValidationError: field"
            /\ a_pc' = "import_failed"
            /\ UNCHANGED self
       ELSE /\ self' = Fields(environ)
            /\ a_pc' = "config_emails"
            /\ UNCHANGED error
    /\ UNCHANGED <<environ, routes, warned, settings, built, printed, served>>
    /\ UNCHANGED <<migVars, corsVars>>

\* The first mode="after" validator (config.py:130-138).
SetDefaultEmailsFrom ==
    /\ a_pc = "config_emails"
    /\ self' = _set_default_emails_from(self)
    /\ a_pc' = "config_secrets"
    /\ UNCHANGED <<environ, routes, warned, error, settings, built, printed, served>>
    /\ UNCHANGED <<migVars, corsVars>>

\* The second mode="after" validator (config.py:187-198).  Its ValueError is
\* reported by pydantic as a ValidationError (a subclass of ValueError).
EnforceNonDefaultSecrets ==
    /\ a_pc = "config_secrets"
    /\ LET r == _enforce_non_default_secrets(self)
       IN  /\ warned' = warned \o r.warnings
           /\ IF r.raised
              THEN /\ error' = "ValidationError: ValueError"
                   /\ a_pc' = "import_failed"
              ELSE /\ a_pc' = "config_bind"
                   /\ UNCHANGED error
    /\ UNCHANGED <<environ, routes, self, settings, built, printed, served>>
    /\ UNCHANGED <<migVars, corsVars>>

\* config.py:202, the assignment of the global.
BindSettings ==
    /\ a_pc = "config_bind"
    /\ settings' = self
    /\ built' = built + 1
    /\ a_pc' = "main_14"
    /\ UNCHANGED <<environ, routes, self, warned, error, printed, served>>
    /\ UNCHANGED <<migVars, corsVars>>

\* main.py:14
PrintProjectName ==
    /\ a_pc = "main_14"
    /\ printed' = Append(printed, settings.PROJECT_NAME)
    /\ a_pc' = "loaded"
    /\ UNCHANGED <<environ, routes, self, warned, error, settings, built, served>>
    /\ UNCHANGED <<migVars, corsVars>>

\* main.py:7-9, a request answered by read_root.  The server serves the app
\* object of the module once app.main has been imported.
read_root ==
    /\ a_pc = "loaded"
    /\ "GET /" \in routes
    /\ served < MaxRequests
    /\ served' = served + 1
    /\ UNCHANGED <<environ, a_pc, routes, self, warned, error, settings, built, printed>>
    /\ UNCHANGED <<migVars, corsVars>>

AppInit ==
    /\ environ \in Environs
    /\ a_pc = "main_4"
    /\ routes = {}
    /\ self = NoObject
    /\ warned = <<>>
    /\ error = NoError
    /\ settings = NoObject
    /\ built = 0
    /\ printed = <<>>
    /\ served = 0

AppIdle ==
    /\ environ = [n \in EnvNames |-> Unset]
    /\ a_pc = "idle"
    /\ routes = {}
    /\ self = NoObject
    /\ warned = <<>>
    /\ error = NoError
    /\ settings = NoObject
    /\ built = 0
    /\ printed = <<>>
    /\ served = 0

AppNext ==
    \/ CreateApp
    \/ RegisterRoot
    \/ ImportConfig
    \/ ValidateFields
    \/ SetDefaultEmailsFrom
    \/ EnforceNonDefaultSecrets
    \/ BindSettings
    \/ PrintProjectName
    \/ read_root

-----------------------------------------------------------------------------
(***************************************************************************)
(* migrations/env.py                                                       *)
(***************************************************************************)

\* The environments env.py runs in.
MigEnvirons ==
    [ POSTGRES_USER     : {Unset, "blog"},
      POSTGRES_PASSWORD : {Unset, "s3cure"},
      POSTGRES_SERVER   : {Unset, "db"},
      POSTGRES_PORT     : {Unset, "5433"},
      POSTGRES_DB       : {Unset, "blog_db"} ]

MigEnvNames ==
    {"POSTGRES_USER", "POSTGRES_PASSWORD", "POSTGRES_SERVER", "POSTGRES_PORT",
     "POSTGRES_DB"}

\* os.getenv(name, default)
getenv(env, name, default) ==
    IF env[name] = Unset THEN default ELSE env[name]

\* env.py:28-39.  The URL is kept as the parts the f-string joins.
get_url(env) ==
    [ scheme   |-> "postgresql+asyncpg",
      user     |-> getenv(env, "POSTGRES_USER", "postgres"),
      password |-> getenv(env, "POSTGRES_PASSWORD", "postgres"),
      server   |-> getenv(env, "POSTGRES_SERVER", "localhost"),
      port     |-> getenv(env, "POSTGRES_PORT", "5432"),
      db       |-> getenv(env, "POSTGRES_DB", "postgres"),
      query    |-> "async_fallback=True" ]

NoUrl == [scheme |-> None]
\* The migration context before context.configure.
NoContext == [kind |-> "unconfigured", url |-> NoUrl]

\* An entry of m_log: the call made and the resources as they stood then.
LogEntry(op) ==
    [op |-> op, ctx |-> m_ctx, engine |-> m_engine, conn |-> m_conn]

\* env.py:14-18
LoadConfig ==
    /\ m_pc = "env_14"
    /\ m_logging' = m_cfgfile
    /\ m_pc' = "env_22"
    /\ UNCHANGED <<m_environ, m_cfgfile, m_offline, m_dbUp, m_url, m_ctx, m_engine,
                   m_conn, m_log>>
    /\ UNCHANGED <<appVars, corsVars>>

\* env.py:22-25
ImportMetadata ==
    /\ m_pc = "env_22"
    /\ m_pc' = "env_43"
    /\ UNCHANGED <<m_environ, m_cfgfile, m_offline, m_dbUp, m_logging, m_url, m_ctx,
                   m_engine, m_conn, m_log>>
    /\ UNCHANGED <<appVars, corsVars>>

\* env.py:43
SetMainOption ==
    /\ m_pc = "env_43"
    /\ m_url' = get_url(m_environ)
    /\ m_pc' = "env_102"
    /\ UNCHANGED <<m_environ, m_cfgfile, m_offline, m_dbUp, m_logging, m_ctx, m_engine,
                   m_conn, m_log>>
    /\ UNCHANGED <<appVars, corsVars>>

\* env.py:102-105 with the mode chosen whatever the flag says.
DispatchAlwaysOnline ==
    /\ m_pc = "env_102"
    /\ m_log' = Append(m_log, LogEntry("run_migrations_online"))
    /\ m_pc' = "online_79"
    /\ UNCHANGED <<m_environ, m_cfgfile, m_offline, m_dbUp, m_logging, m_url, m_ctx,
                   m_engine, m_conn>>
    /\ UNCHANGED <<appVars, corsVars>>

\* env.py:102-105, the call of one of the two mode functions.
Dispatch ==
    /\ m_pc = "env_102"
    /\ IF m_offline
       THEN /\ m_log' = Append(m_log, LogEntry("run_migrations_offline"))
            /\ m_pc' = "offline_51"
       ELSE /\ m_log' = Append(m_log, LogEntry("run_migrations_online"))
            /\ m_pc' = "online_79"
    /\ UNCHANGED <<m_environ, m_cfgfile, m_offline, m_dbUp, m_logging, m_url, m_ctx,
                   m_engine, m_conn>>
    /\ UNCHANGED <<appVars, corsVars>>

\* env.py:51-57
OfflineConfigure ==
    /\ m_pc = "offline_51"
    /\ m_ctx' = [kind |-> "url", url |-> m_url]
    /\ m_pc' = "offline_60"
    /\ UNCHANGED <<m_environ, m_cfgfile, m_offline, m_dbUp, m_logging, m_url, m_engine,
                   m_conn, m_log>>
    /\ UNCHANGED <<appVars, corsVars>>

\* env.py:60-61
OfflineRunMigrations ==
    /\ m_pc = "offline_60"
    /\ m_log' = Append(m_log, LogEntry("context.run_migrations"))
    /\ m_pc' = "done"
    /\ UNCHANGED <<m_environ, m_cfgfile, m_offline, m_dbUp, m_logging, m_url, m_ctx,
                   m_engine, m_conn>>
    /\ UNCHANGED <<appVars, corsVars>>

\* env.py:98 and 79-83
CreateEngine ==
    /\ m_pc = "online_79"
    /\ m_engine' = "created"
    /\ m_pc' = "online_86"
    /\ UNCHANGED <<m_environ, m_cfgfile, m_offline, m_dbUp, m_logging, m_url, m_ctx,
                   m_conn, m_log>>
    /\ UNCHANGED <<appVars, corsVars>>

\* env.py:86, entering `async with connectable.connect()`.  A database that
\* refuses the connection raises; the exception leaves the script.
Connect ==
    /\ m_pc = "online_86"
    /\ IF m_dbUp
       THEN /\ m_conn' = "open"
            /\ m_pc' = "online_88"
       ELSE /\ m_pc' = "failed"
            /\ UNCHANGED m_conn
    /\ UNCHANGED <<m_environ, m_cfgfile, m_offline, m_dbUp, m_logging, m_url, m_ctx,
                   m_engine, m_log>>
    /\ UNCHANGED <<appVars, corsVars>>

\* env.py:88 and 69
OnlineConfigure ==
    /\ m_pc = "online_88"
    /\ m_ctx' = [kind |-> "connection", url |-> NoUrl]
    /\ m_pc' = "online_70"
    /\ UNCHANGED <<m_environ, m_cfgfile, m_offline, m_dbUp, m_logging, m_url, m_engine,
                   m_conn, m_log>>
    /\ UNCHANGED <<appVars, corsVars>>

\* env.py:70-71
OnlineRunMigrations ==
    /\ m_pc = "online_70"
    /\ m_log' = Append(m_log, LogEntry("context.run_migrations"))
    /\ m_pc' = "online_exit"
    /\ UNCHANGED <<m_environ, m_cfgfile, m_offline, m_dbUp, m_logging, m_url, m_ctx,
                   m_engine, m_conn>>
    /\ UNCHANGED <<appVars, corsVars>>

\* env.py:86, leaving the `async with` block.
CloseConnection ==
    /\ m_pc = "online_exit"
    /\ m_conn' = "closed"
    /\ m_pc' = "online_91"
    /\ UNCHANGED <<m_environ, m_cfgfile, m_offline, m_dbUp, m_logging, m_url, m_ctx,
                   m_engine, m_log>>
    /\ UNCHANGED <<appVars, corsVars>>

\* env.py:91
DisposeEngine ==
    /\ m_pc = "online_91"
    /\ m_engine' = "disposed"
    /\ m_pc' = "done"
    /\ UNCHANGED <<m_environ, m_cfgfile, m_offline, m_dbUp, m_logging, m_url, m_ctx,
                   m_conn, m_log>>
    /\ UNCHANGED <<appVars, corsVars>>

MigInit ==
    /\ m_environ \in MigEnvirons
    /\ m_cfgfile \in BOOLEAN
    /\ m_offline \in BOOLEAN
    /\ m_dbUp \in BOOLEAN
    /\ m_pc = "env_14"
    /\ m_logging = FALSE
    /\ m_url = NoUrl
    /\ m_ctx = NoContext
    /\ m_engine = "none"
    /\ m_conn = "none"
    /\ m_log = <<>>

MigIdle ==
    /\ m_environ = [n \in MigEnvNames |-> Unset]
    /\ m_cfgfile = FALSE
    /\ m_offline = FALSE
    /\ m_dbUp = FALSE
    /\ m_pc = "idle"
    /\ m_logging = FALSE
    /\ m_url = NoUrl
    /\ m_ctx = NoContext
    /\ m_engine = "none"
    /\ m_conn = "none"
    /\ m_log = <<>>

MigNext ==
    \/ LoadConfig
    \/ ImportMetadata
    \/ SetMainOption
    \/ Dispatch
    \/ OfflineConfigure
    \/ OfflineRunMigrations
    \/ CreateEngine
    \/ Connect
    \/ OnlineConfigure
    \/ OnlineRunMigrations
    \/ CloseConnection
    \/ DisposeEngine

-----------------------------------------------------------------------------
(***************************************************************************)
(* app/core/config.py : parse_cors                                         *)
(***************************************************************************)

\* Longest string and longest list given to parse_cors.
MaxStrLen == 3
MaxListLen == 2

\* The characters strings are made of.  A str is the sequence of its characters.
Chars == {"a", ",", " ", "["}
\* What str.strip() removes.
Whitespace == {" ", "\t", "\n", "\r"}

\* Sequences over S of length at most n.
SeqUpTo(S, n) == UNION {[1..k -> S] : k \in 0..n}

\* Python values: a str, a list of str, or a value of another type.
Str(chars)  == [type |-> "str", chars |-> chars, items |-> <<>>]
List(items) == [type |-> "list", chars |-> <<>>, items |-> items]
Other(t)    == [type |-> t, chars |-> <<>>, items |-> <<>>]
NoValue     == Other("<no value>")

\* The values parse_cors is applied to.
CorsInputs ==
    {Str(c) : c \in SeqUpTo(Chars, MaxStrLen)}
      \cup {List(l) : l \in SeqUpTo({<<"a">>, <<" ", "a">>, <<>>}, MaxListLen)}
      \cup {Other(t) : t \in {"NoneType", "int", "dict", "bytes"}}

\* str.startswith
startswith(chars, c) == Len(chars) > 0 /\ chars[1] = c

\* str.split(sep) for a one-character separator.
RECURSIVE split(_, _)
split(chars, sep) ==
    IF \A i \in 1..Len(chars) : chars[i] # sep
    THEN <<chars>>
    ELSE LET i == CHOOSE k \in 1..Len(chars) :
                      chars[k] = sep /\ \A j \in 1..(k - 1) : chars[j] # sep
         IN  <<SubSeq(chars, 1, i - 1)>> \o split(SubSeq(chars, i + 1, Len(chars)), sep)

\* str.strip()
RECURSIVE lstrip(_)
lstrip(chars) ==
    IF Len(chars) > 0 /\ chars[1] \in Whitespace THEN lstrip(Tail(chars)) ELSE chars

RECURSIVE rstrip(_)
rstrip(chars) ==
    IF Len(chars) > 0 /\ chars[Len(chars)] \in Whitespace
    THEN rstrip(SubSeq(chars, 1, Len(chars) - 1))
    ELSE chars

strip(chars) == rstrip(lstrip(chars))

\* config.py:32-46 without the strip() of config.py:43.
ParseCorsNoStrip(v) ==
    IF v.type = "str" /\ ~startswith(v.chars, "[")
    THEN [raised |-> FALSE, value |-> List(split(v.chars, ","))]
    ELSE IF v.type \in {"list", "str"}
    THEN [raised |-> FALSE, value |-> v]
    ELSE [raised |-> TRUE, value |-> NoValue]

\* config.py:32-46.  raised: the ValueError of config.py:46.
parse_cors(v) ==
    IF v.type = "str" /\ ~startswith(v.chars, "[")
    THEN [raised |-> FALSE,
          value  |-> List([k \in 1..Len(split(v.chars, ",")) |->
                              strip(split(v.chars, ",")[k])])]
    ELSE IF v.type \in {"list", "str"}
    THEN [raised |-> FALSE, value |-> v]
    ELSE [raised |-> TRUE, value |-> NoValue]

\* A call of parse_cors (the BeforeValidator of config.py:95).
CallParseCors ==
    /\ c_pc = "call"
    /\ c_result' = parse_cors(c_input).value
    /\ c_pc' = IF parse_cors(c_input).raised THEN "raised" ELSE "returned"
    /\ UNCHANGED c_input
    /\ UNCHANGED <<appVars, migVars>>

CorsInit ==
    /\ c_input \in CorsInputs
    /\ c_pc = "call"
    /\ c_result = NoValue

CorsIdle ==
    /\ c_input = NoValue
    /\ c_pc = "idle"
    /\ c_result = NoValue

CorsNext == CallParseCors

-----------------------------------------------------------------------------
(***************************************************************************)
(* Specifications                                                          *)
(***************************************************************************)

Init == AppInit /\ MigIdle /\ CorsIdle
Next == AppNext
\* Loading app.main and serving GET /.
Spec == Init /\ [][Next]_vars

InitMigrate == AppIdle /\ MigInit /\ CorsIdle
NextMigrate == MigNext
\* One run of migrations/env.py.
SpecMigrate == InitMigrate /\ [][NextMigrate]_vars

InitCors == AppIdle /\ MigIdle /\ CorsInit
NextCors == CorsNext
\* parse_cors applied to one value.
SpecCors == InitCors /\ [][NextCors]_vars

-----------------------------------------------------------------------------
(***************************************************************************)
(* Properties of Settings and of the loading of app.main (under Spec)      *)
(***************************************************************************)

\* The variables whose unsafe values are listed.
SecretNames == {"SECRET_KEY", "POSTGRES_PASSWORD", "FIRST_SUPERUSER_PASSWORD"}

\* The environment supplies, for some variable, one of its listed unsafe values.
SuppliesUnsafe == \E n \in SecretNames : environ[n] \in unsafe_defaults[n]

\* The environment supplies every variable that has no default.
SuppliesRequired ==
    \A n \in {"PROJECT_NAME", "POSTGRES_SERVER", "POSTGRES_USER", "POSTGRES_PASSWORD",
              "FIRST_SUPERUSER", "FIRST_SUPERUSER_PASSWORD"} : environ[n] \notin {Unset, ""}

EnvNonLocal == environ.ENVIRONMENT \in {"staging", "production"}
EnvLocal    == environ.ENVIRONMENT \in {"local", Unset}

\* The call Settings() has ended, by a return or by an exception.
ConstructionOver == a_pc \in {"config_bind", "main_14", "loaded", "import_failed"}
\* The call Settings() has returned an object.
Constructed == a_pc \in {"config_bind", "main_14", "loaded"}

\* C1: with ENVIRONMENT staging or production, an unsafe listed value of
\* SECRET_KEY, POSTGRES_PASSWORD or FIRST_SUPERUSER_PASSWORD makes Settings()
\* fail with a (pydantic-wrapped) ValueError, and no object constructed for a
\* non-local environment holds a listed unsafe value.
C1_UnsafeRejectedOutsideLocal ==
    /\ (EnvNonLocal /\ SuppliesUnsafe /\ ConstructionOver) =>
           /\ a_pc = "import_failed"
           /\ error \in {"ValidationError: field", "ValidationError: ValueError"}
           /\ SuppliesRequired => error = "ValidationError: ValueError"
           /\ settings = NoObject
    /\ (Constructed /\ self.ENVIRONMENT # "local") =>
           \A n \in SecretNames : self[n] \notin unsafe_defaults[n]
    /\ (settings # NoObject /\ settings.ENVIRONMENT # "local") =>
           \A n \in SecretNames : settings[n] \notin unsafe_defaults[n]

\* C1 witness: production, every required variable supplied, POSTGRES_PASSWORD
\* "123456": the import has failed on the validator's ValueError.
C1_Witness ==
    /\ environ.ENVIRONMENT = "production"
    /\ SuppliesRequired
    /\ environ.POSTGRES_PASSWORD = "123456"
    /\ environ.SECRET_KEY = "s3cure"
    /\ a_pc = "import_failed"
    /\ error = "ValidationError: ValueError"

\* The warnings the three checks owe, in the order of the calls.
OwedWarnings ==
    SelectSeq(<<"SECRET_KEY", "POSTGRES_PASSWORD", "FIRST_SUPERUSER_PASSWORD">>,
              LAMBDA n : environ[n] \in unsafe_defaults[n])

\* C2: with ENVIRONMENT local (set, or left to its default), an unsafe value
\* never makes Settings() fail: construction fails only on field validation,
\* and otherwise returns the object with the supplied values unchanged after
\* one warning per unsafe variable, all three variables having been checked.
C2_LocalWarnsOnly ==
    EnvLocal =>
        /\ a_pc = "import_failed" => (error = "ValidationError: field" /\ ~SuppliesRequired)
        /\ (ConstructionOver /\ SuppliesRequired) =>
               /\ Constructed
               /\ warned = OwedWarnings
               /\ \A n \in SecretNames \ {"SECRET_KEY"} : self[n] = environ[n]
               /\ environ.SECRET_KEY # Unset => self.SECRET_KEY = environ.SECRET_KEY
        /\ ~ConstructionOver => warned = <<>>

\* C2 witness: local, all three variables unsafe, the module loaded after
\* three warnings.
C2_Witness ==
    /\ environ.ENVIRONMENT = "local"
    /\ a_pc = "loaded"
    /\ warned = <<"SECRET_KEY", "POSTGRES_PASSWORD", "FIRST_SUPERUSER_PASSWORD">>
    /\ settings.POSTGRES_PASSWORD = "123456"
    /\ settings.FIRST_SUPERUSER_PASSWORD = "123456"
    /\ settings.SECRET_KEY = "changeme"

\* The environment makes validation fail: a required variable is missing or
\* an unsafe secret is rejected.
ValidationMustFail == ~SuppliesRequired \/ (EnvNonLocal /\ SuppliesUnsafe)

\* C3: settings is built at most once, during the load of app.main and before
\* any answer of GET /; when validation fails the load fails, settings stays
\* unbound and GET / never answers.
C3_ValidatedOnceBeforeServing ==
    /\ built <= 1
    /\ built = 1 <=> settings # NoObject
    /\ a_pc = "loaded" => built = 1
    /\ served > 0 => (built = 1 /\ a_pc = "loaded" /\ error = NoError)
    /\ ValidationMustFail => (served = 0 /\ a_pc # "loaded" /\ built = 0)
    /\ a_pc = "import_failed" => (served = 0 /\ built = 0 /\ error # NoError)

\* C3 witness: PROJECT_NAME missing; the route was registered, the import
\* failed and nothing was served.
C3_Witness ==
    /\ environ.PROJECT_NAME = Unset
    /\ "GET /" \in routes
    /\ a_pc = "import_failed"
    /\ served = 0

\* C6: after a successful construction EMAILS_FROM_NAME is the supplied
\* sender name when one was supplied and non-empty, PROJECT_NAME otherwise,
\* and never None.
C6_EmailsFromNameSet ==
    Constructed =>
        /\ self.EMAILS_FROM_NAME # None
        /\ self.EMAILS_FROM_NAME =
               IF environ.EMAILS_FROM_NAME \notin {Unset, ""}
               THEN environ.EMAILS_FROM_NAME
               ELSE environ.PROJECT_NAME
        /\ settings # NoObject => settings.EMAILS_FROM_NAME = self.EMAILS_FROM_NAME

\* C6 witness: no sender name supplied, the bound settings carry PROJECT_NAME.
C6_Witness ==
    /\ environ.EMAILS_FROM_NAME = Unset
    /\ a_pc = "loaded"
    /\ settings.EMAILS_FROM_NAME = "myblog"

-----------------------------------------------------------------------------
(***************************************************************************)
(* Properties of the migration script (under SpecMigrate)                  *)
(***************************************************************************)

\* The entries of m_log made by operation op.
LogOf(op) == SelectSeq(m_log, LAMBDA e : e.op = op)

\* The mode functions called so far.
ModesCalled ==
    {m \in {"run_migrations_offline", "run_migrations_online"} : Len(LogOf(m)) > 0}

Dispatched == m_pc \notin {"env_14", "env_22", "env_43", "env_102"}

\* C4: a run executes exactly one mode, the one the offline flag chooses.
\* Offline, migrations run on a context configured with the URL and no
\* connection, no engine is created and no connection opened.  Online,
\* migrations run only while the connection is open.
C4_ExactlyOneMode ==
    /\ Len(LogOf("run_migrations_offline")) + Len(LogOf("run_migrations_online"))
           = (IF Dispatched THEN 1 ELSE 0)
    /\ Dispatched =>
           ModesCalled = {IF m_offline THEN "run_migrations_offline"
                                       ELSE "run_migrations_online"}
    /\ Len(LogOf("context.run_migrations")) <= 1
    /\ m_pc = "done" => Len(LogOf("context.run_migrations")) = 1
    /\ m_offline =>
           /\ m_engine = "none"
           /\ m_conn = "none"
           /\ m_ctx.kind \in {"unconfigured", "url"}
           /\ \A i \in 1..Len(LogOf("context.run_migrations")) :
                  LET e == LogOf("context.run_migrations")[i]
                  IN  /\ e.ctx = [kind |-> "url", url |-> get_url(m_environ)]
                      /\ e.engine = "none"
                      /\ e.conn = "none"
    /\ ~m_offline =>
           /\ m_ctx.kind \in {"unconfigured", "connection"}
           /\ \A i \in 1..Len(LogOf("context.run_migrations")) :
                  LET e == LogOf("context.run_migrations")[i]
                  IN  /\ e.ctx.kind = "connection"
                      /\ e.engine = "created"
                      /\ e.conn = "open"

\* C4 witness: an offline run has finished, its migrations run on the URL
\* with no engine and no connection.
C4_Witness ==
    /\ m_offline
    /\ m_pc = "done"
    /\ Len(LogOf("context.run_migrations")) = 1
    /\ m_ctx.kind = "url"
    /\ m_engine = "none"

-----------------------------------------------------------------------------
(***************************************************************************)
(* Properties of parse_cors (under SpecCors)                               *)
(***************************************************************************)

\* The number of occurrences of c in chars.
Count(chars, c) == Cardinality({i \in 1..Len(chars) : chars[i] = c})

\* chars without its whitespace.
Unspaced(chars) == SelectSeq(chars, LAMBDA c : c \notin Whitespace)

\* ",".join(items)
RECURSIVE join(_)
join(items) ==
    IF Len(items) = 0 THEN <<>>
    ELSE IF Len(items) = 1 THEN items[1]
    ELSE items[1] \o <<",">> \o join(Tail(items))

\* The result is the list of the comma-separated pieces of the input, each
\* without surrounding whitespace.
IsListOfDomains(input, result) ==
    /\ result.type = "list"
    /\ Len(result.items) = Count(input.chars, ",") + 1
    /\ \A k \in 1..Len(result.items) :
           LET d == result.items[k]
           IN  /\ Count(d, ",") = 0
               /\ Len(d) > 0 => (d[1] \notin Whitespace /\ d[Len(d)] \notin Whitespace)
    /\ Unspaced(join(result.items)) = Unspaced(input.chars)

=============================================================================
